---------------------------- MODULE Spec2Model ----------------------------
(***************************************************************************)
(* Order lifecycle and balance ledger of the crypto-trading service:       *)
(* createOrder / cancelOrder (services/tradingService.ts),                 *)
(* validateUserBalance / syncOrderStatuses (utils/tradingServiceUtils.ts), *)
(* the exchange calls of services/cexService.ts, and the storage           *)
(* transactions (sequelize, MySQL) the handlers open.                      *)
(*                                                                         *)
(* Amounts of the quote asset are counted in thousandths (TradingFeeDen),  *)
(* so that the 0.1% fee of config.trading.fee is an integer: a notional of *)
(* price * quantity is price * quantity * 1000 units, its fee is           *)
(* price * quantity units.  Amounts of the base asset are whole units.     *)
(*                                                                         *)
(* Each request handler runs in one of two processes; every await of the   *)
(* source that touches storage or the exchange is a step, so the handlers  *)
(* interleave where the event loop lets them.  A transaction buffers its   *)
(* writes (tx) and holds the lock of every row it wrote until it commits   *)
(* or rolls back; reads are non-locking reads of the committed rows.       *)
(*                                                                         *)
(* Three parts of the service stand beside the ledger, each with a         *)
(* specification of its own: the error responses of the trading routes     *)
(* (SpecHttp), the candle buffer of services/priceService.ts and its flush *)
(* timer (SpecFeed), and the kline WebSockets of binanceKlineSocket        *)
(* (SpecWs).                                                               *)
(***************************************************************************)
EXTENDS Integers, Sequences, FiniteSets, TLC

\* ----------------------------------------------------------------- bounds
MaxOrders == 2
MaxPrice == 1
MaxQty == 1
InitQuote == 1500
InitBase == 1
MaxMantissa == 12
MaxDecimals == 8
MaxCandles == 4
MaxFlushes == 2
MaxSockets == 6

\* -------------------------------------------------------------- constants
\* config.trading.fee = 0.001 = TradingFeeNum / TradingFeeDen
TradingFeeNum == 1
TradingFeeDen == 1000
\* binanceKlineSocket: reconnections tried before giving up
MAX_RETRIES == 5

Procs == {"p1", "p2"}
\* user 1 owns a funded row per asset; user 2 has no balance row at all
Users == {1, 2}
BaseAsset == "BTC"
QuoteAsset == "USDT"
Assets == {BaseAsset, QuoteAsset}
Rows == Users \X Assets
OrderIds == 1..MaxOrders
Sides == {"BUY", "SELL"}

\* what storage holds after a failed coercion of the raw exchange response
\* (an object, not a string) into the status column
RawStatus == "<raw response>"

VARIABLES
    bal,       \* committed crypto_balances rows, by <<userId, tokenSymbol>>
    orders,    \* committed trading_orders rows, by id
    trades,    \* committed trade_history rows, in insertion order
    nextId,    \* next auto-increment id of trading_orders
    exch,      \* the exchange's status of the order submitted for a local id
    pc,        \* position of each handler
    loc,       \* local variables of each handler
    tx,        \* uncommitted writes of each handler's transaction
    res,       \* what the handler returned or threw
    snap,      \* history: the committed balances when the running call began
    released,  \* history: number of reservation releases committed per order
    adj,       \* a call of adjustQuantityToLotSize / adjustPriceToTickSize
    http,      \* an error on its way to the client, and the response sent for it
    feed,      \* priceService: batchBuffer, the rows written, the flushes running
    kline      \* binanceKlineSocket: the sockets of a symbol and the module's state

vars == <<bal, orders, trades, nextId, exch, pc, loc, tx, res, snap, released, adj,
          http, feed, kline>>

\* the variables of the order handlers
tradingVars == <<bal, orders, trades, nextId, exch, pc, loc, tx, res, snap, released>>

\* ---------------------------------------------------------------- records
NoRow == [exists |-> FALSE, availableBalance |-> 0, reservedBalance |-> 0]
BalRow(a, r) == [exists |-> TRUE, availableBalance |-> a, reservedBalance |-> r]

NoOrder ==
    [exists |-> FALSE, userId |-> 0, orderType |-> "BUY", executionType |-> "LIMIT",
     price |-> 0, quantity |-> 0, status |-> "NONE", externalOrderId |-> 0]

EmptyFn == [x \in {} |-> 0]
EmptyTx == [balW |-> EmptyFn, ordIns |-> EmptyFn, statusW |-> EmptyFn, trW |-> <<>>]

NoLoc ==
    [op |-> "none", userId |-> 0, orderId |-> 0, orderType |-> "BUY",
     executionType |-> "LIMIT", price |-> 0, quantity |-> 0, rdAvail |-> 0, rdRes |-> 0,
     cex |-> "NONE", todo |-> {}, submits |-> 0, flow |-> FALSE]
NoRes == [kind |-> "none", code |-> 0, msg |-> ""]
Ok(m) == [kind |-> "ok", code |-> 200, msg |-> m]
Err(c, m) == [kind |-> "error", code |-> c, msg |-> m]

InitBal ==
    [r \in Rows |->
        IF r[1] = 1
        THEN BalRow(IF r[2] = QuoteAsset THEN InitQuote ELSE InitBase, 0)
        ELSE NoRow]

RECURSIVE SetSum(_, _)
SetSum(S, f) ==
    IF S = {} THEN 0
    ELSE LET x == CHOOSE y \in S : TRUE IN f[x] + SetSum(S \ {x}, f)

\* ------------------------------------------- adjustment to exchange filters
\* Prices, quantities, tick and step sizes handed to the two adjust functions
\* are counted in units of 10^-MaxDecimals.  A tick or step size is
\* digit * 10^-exp: the form of the tickSize / stepSize filters of a symbol.
RECURSIVE Pow10(_)
Pow10(n) == IF n = 0 THEN 1 ELSE 10 * Pow10(n - 1)

Unit == Pow10(MaxDecimals)
StepSizes == [digit : {1, 5}, exp : 0..MaxDecimals]
StepValue(step) == step.digit * Pow10(MaxDecimals - step.exp)

\* countDecimals: 0 for a whole number; else the length of what follows the
\* "." of value.toString().  A number below 1e-6 prints in exponent form
\* ("1e-7", "5e-8"), which has no "." when the mantissa is one digit.
CountDecimals(step) ==
    IF step.exp = 0 THEN 0
    ELSE IF step.exp > 6 THEN 0
    ELSE step.exp

\* Number.prototype.toFixed(decimals) followed by parseFloat: the value
\* rounded to that many decimals
ToFixed(value, decimals) ==
    LET grain == Pow10(MaxDecimals - decimals)
    IN ((value + (grain \div 2)) \div grain) * grain

\* adjustQuantityToLotSize(quantity, stepSize)
AdjustQuantityToLotSize(quantity, stepSize) ==
    LET adjustedQuantity == (quantity \div StepValue(stepSize)) * StepValue(stepSize)
    IN ToFixed(adjustedQuantity, CountDecimals(stepSize))

\* adjustPriceToTickSize(price, tickSize)
AdjustPriceToTickSize(price, tickSize) ==
    LET adjustedPrice == (price \div StepValue(tickSize)) * StepValue(tickSize)
    IN ToFixed(adjustedPrice, CountDecimals(tickSize))

\* the filters of the one market pair traded here: whole units
LotStep == [digit |-> 1, exp |-> 0]
TickStep == [digit |-> 1, exp |-> 0]

\* a call of one of the adjust functions: its arguments and its result
NoAdj == [fn |-> "none", value |-> 0, step |-> LotStep, result |-> -1]

\* ------------------------------------------------------ amounts of an order
\* faulty variant: the fee is left out of the amount a BUY needs
TotalAmount_NoFee(price, quantity) == price * quantity * TradingFeeDen

\* validateUserBalance, BUY branch: tradeAmount, feeAmount, totalAmount
TradeAmount(price, quantity) == price * quantity * TradingFeeDen
FeeAmount(price, quantity) == (TradeAmount(price, quantity) * TradingFeeNum) \div TradingFeeDen
TotalAmount(price, quantity) == TradeAmount(price, quantity) + FeeAmount(price, quantity)

\* the row validateUserBalance reserves on, and the amount it reserves
ReserveAsset(orderType) == IF orderType = "BUY" THEN QuoteAsset ELSE BaseAsset
ReserveAmount(orderType, price, quantity) ==
    IF orderType = "BUY" THEN TotalAmount(price, quantity) ELSE quantity

\* cancelOrder #4: token and releaseAmount
ReleaseAsset(orderType) == IF orderType = "BUY" THEN QuoteAsset ELSE BaseAsset
ReleaseAmount(orderType, price, quantity) ==
    IF orderType = "BUY" THEN TradeAmount(price, quantity) ELSE quantity

\* ------------------------------------------------------------ transactions
\* a row written by another open transaction is locked until that one ends
BalLocked(p, r) == \E q \in Procs \ {p} : r \in DOMAIN tx[q].balW
OrderLocked(p, o) == \E q \in Procs \ {p} : o \in DOMAIN tx[q].statusW

\* transaction.commit(): the buffered writes become the committed rows
CommittedBal(t) == [r \in Rows |-> IF r \in DOMAIN t.balW THEN t.balW[r] ELSE bal[r]]
\* faulty variant: a status written to an existing order is lost on commit
CommittedOrders_DropsStatus(t) ==
    [o \in OrderIds |-> IF o \in DOMAIN t.ordIns THEN t.ordIns[o] ELSE orders[o]]

CommittedOrders(t) ==
    [o \in OrderIds |->
        IF o \in DOMAIN t.ordIns THEN t.ordIns[o]
        ELSE IF o \in DOMAIN t.statusW THEN [orders[o] EXCEPT !.status = t.statusW[o]]
        ELSE orders[o]]
CommittedTrades(t) == trades \o t.trW

\* faulty variant: the catch block commits what the transaction wrote
RolledBackBal_Commits(t) == CommittedBal(t)

\* transaction.rollback(): the buffered writes are dropped
RolledBackBal(t) == bal
RolledBackOrders(t) == orders
RolledBackTrades(t) == trades

\* the handler of p ends: its transaction t is committed, result r
EndCommit(p, t, r) ==
    /\ bal' = CommittedBal(t)
    /\ orders' = CommittedOrders(t)
    /\ trades' = CommittedTrades(t)
    /\ tx' = [tx EXCEPT ![p] = EmptyTx]
    /\ pc' = [pc EXCEPT ![p] = "done"]
    /\ res' = [res EXCEPT ![p] = r]

\* faulty variant: the catch block of cancelOrder marks the order CANCELLED
EndRollback_CancelsAnyway(p, r) ==
    /\ bal' = bal
    /\ orders' = IF loc[p].op = "cancelOrder"
                 THEN [orders EXCEPT ![loc[p].orderId].status = "CANCELLED"]
                 ELSE orders
    /\ trades' = trades
    /\ tx' = [tx EXCEPT ![p] = EmptyTx]
    /\ pc' = [pc EXCEPT ![p] = "done"]
    /\ res' = [res EXCEPT ![p] = r]

\* the handler of p ends in its catch block: rollback, then the error r
EndRollback(p, r) ==
    /\ bal' = RolledBackBal(tx[p])
    /\ orders' = RolledBackOrders(tx[p])
    /\ trades' = RolledBackTrades(tx[p])
    /\ tx' = [tx EXCEPT ![p] = EmptyTx]
    /\ pc' = [pc EXCEPT ![p] = "done"]
    /\ res' = [res EXCEPT ![p] = r]

\* --------------------------------------------------------- error responses
\* process.env.NODE_ENV
Envs == {"development", "production", "test", "unset"}
\* the handlers of the trading routes that answer with the error's stack field
TradingHandlers == {"placeOrder", "getUserOrders", "cancelOrder", "getTradeHistory"}
\* what was thrown: a CustomError, another Error, or a value that is no Error
ErrorKinds == {"CustomError", "Error", "value"}
ErrorStatuses == {400, 404, 500, 502}

NoResponse == [status |-> 0, stack |-> FALSE]
NoHttp ==
    [env |-> "unset", origin |-> "none", kind |-> "Error", status |-> 500,
     response |-> NoResponse]

\* ------------------------------------------------------- the candle buffer
\* candles are numbered in the order bufferPriceCandle receives them
Candles == 1..MaxCandles
NoFeed == [batchBuffer |-> {}, written |-> {}, inflight |-> <<>>, handed |-> 0]

\* ------------------------------------------------------- the kline sockets
SocketIds == 1..MaxSockets
\* a socket: its readyState, the events it has raised that are not handled
\* yet, and (history) the reconnections its events have scheduled
NoSocket == [readyState |-> "NONE", events |-> {}, reconnects |-> 0]
\* the module's state for one symbol: connections holds the id of the socket
\* of the symbol (0: no entry), timers the reconnections waiting for
\* RETRY_DELAY, created the sockets made so far, shutdownAt the value of
\* created when closeAllConnections ran (-1: it has not run)
NoKline ==
    [sockets |-> [s \in SocketIds |-> NoSocket], connections |-> 0,
     retryAttempts |-> 0, timers |-> 0, created |-> 0, shutdownAt |-> -1]

\* no request is being handled and nothing is stored but the funded rows
IdleService ==
    /\ bal = InitBal
    /\ orders = [o \in OrderIds |-> NoOrder]
    /\ trades = <<>>
    /\ nextId = 1
    /\ exch = [o \in OrderIds |-> "NONE"]
    /\ pc = [p \in Procs |-> "idle"]
    /\ loc = [p \in Procs |-> NoLoc]
    /\ tx = [p \in Procs |-> EmptyTx]
    /\ res = [p \in Procs |-> NoRes]
    /\ snap = InitBal
    /\ released = [o \in OrderIds |-> 0]

Init ==
    /\ bal = InitBal
    /\ orders = [o \in OrderIds |-> NoOrder]
    /\ trades = <<>>
    /\ nextId = 1
    /\ exch = [o \in OrderIds |-> "NONE"]
    /\ pc = [p \in Procs |-> "idle"]
    /\ loc = [p \in Procs |-> NoLoc]
    /\ tx = [p \in Procs |-> EmptyTx]
    /\ res = [p \in Procs |-> NoRes]
    /\ snap = InitBal
    /\ released = [o \in OrderIds |-> 0]
    /\ adj = NoAdj
    /\ http = NoHttp
    /\ feed = NoFeed
    /\ kline = NoKline

\* the caller has taken the result: the handler's frame is gone
Return(p) ==
    /\ pc[p] = "done"
    /\ pc' = [pc EXCEPT ![p] = "idle"]
    /\ loc' = [loc EXCEPT ![p] = NoLoc]
    /\ res' = [res EXCEPT ![p] = NoRes]
    /\ UNCHANGED <<bal, orders, trades, nextId, exch, tx, released>>

\* ------------------------------------------------------------- createOrder
\* Step 1: the input checks; the error thrown, or NoRes when the input passes
InputError(userId, executionType, price, quantity) ==
    IF userId = 0 THEN Err(400, "Invalid or missing userId")
    ELSE IF executionType = "LIMIT" /\ price <= 0
    THEN Err(400, "Price required for LIMIT orders")
    ELSE IF quantity <= 0 THEN Err(400, "Invalid quantity")
    ELSE NoRes

\* faulty variant: a price or quantity of zero passes the validity checks
ValidationError_AcceptsZero(price, quantity) == NoRes

\* validateUserBalance: the validity checks of the adjusted price and quantity
ValidationError(price, quantity) ==
    IF price <= 0 THEN Err(400, "Invalid price for order")
    ELSE IF quantity <= 0 THEN Err(400, "Invalid quantity")
    ELSE NoRes

\* the requests tried, price and quantity in units of 10^-MaxDecimals: every
\* well-formed LIMIT order of the funded user, a MARKET order (sent without a
\* price: 0 stands for null), one order with a quantity of zero, one order of
\* the user without balance rows, one order whose quantity is below the step
\* size and one whose price is below the tick size
CreateInputs ==
    ({1} \X Sides \X {"LIMIT"} \X {n * Unit : n \in 1..MaxPrice}
                                \X {n * Unit : n \in 1..MaxQty})
    \cup {<<1, "BUY", "MARKET", 0, Unit>>,
          <<1, "BUY", "LIMIT", Unit, 0>>, <<2, "BUY", "LIMIT", Unit, Unit>>,
          <<1, "BUY", "LIMIT", Unit, Unit \div 2>>,
          <<1, "SELL", "LIMIT", Unit \div 2, Unit>>}

\* Step 4: what the ticker request of a MARKET order answers: a price, or 0
\* when the request fails or carries no price
TickerAnswers == 0..MaxPrice

\* faulty variant: the amount is not compared with availableBalance
SufficientBalance_IgnoresAmount(row, amount) == row.exists

\* validateUserBalance: the sufficiency check on the row findOne returned
SufficientBalance(row, amount) == row.exists /\ ~(row.availableBalance < amount)

\* createOrder is called: Steps 1-7 up to validateUserBalance's
\* CryptoBalance.findOne and its sufficiency check
CreateOrderCall(p) ==
    /\ pc[p] = "idle"
    /\ nextId + Cardinality({q \in Procs : pc[q] = "c_reserve"}) <= MaxOrders
    /\ \E in \in CreateInputs, ticker \in TickerAnswers :
       LET userId == in[1]  orderType == in[2]  executionType == in[3]
           executionPrice ==
               IF executionType = "MARKET" THEN ticker * Unit ELSE in[4]
           adjustedQuantity ==
               AdjustQuantityToLotSize(in[5], LotStep) \div Unit
           adjustedPrice ==
               IF executionType = "LIMIT"
               THEN AdjustPriceToTickSize(executionPrice, TickStep) \div Unit
               ELSE executionPrice \div Unit
           r == <<userId, ReserveAsset(orderType)>>
           amount == ReserveAmount(orderType, adjustedPrice, adjustedQuantity)
           call == [NoLoc EXCEPT !.op = "createOrder", !.userId = userId,
                                 !.orderType = orderType,
                                 !.executionType = executionType,
                                 !.price = adjustedPrice,
                                 !.quantity = adjustedQuantity]
       IN /\ (executionType = "LIMIT" => ticker = 0)
          /\ IF InputError(userId, executionType, in[4], in[5]) # NoRes
             THEN /\ loc' = [loc EXCEPT ![p] = call]
                  /\ pc' = [pc EXCEPT ![p] = "done"]
                  /\ res' = [res EXCEPT ![p] = InputError(userId, executionType, in[4], in[5])]
             ELSE IF executionType = "MARKET" /\ ticker = 0
             THEN /\ loc' = [loc EXCEPT ![p] = call]
                  /\ pc' = [pc EXCEPT ![p] = "done"]
                  /\ res' = [res EXCEPT ![p] = Err(500, "Could not get price")]
             ELSE IF ValidationError(adjustedPrice, adjustedQuantity) # NoRes
             THEN /\ loc' = [loc EXCEPT ![p] = call]
                  /\ pc' = [pc EXCEPT ![p] = "done"]
                  /\ res' = [res EXCEPT ![p] =
                                ValidationError(adjustedPrice, adjustedQuantity)]
             ELSE IF ~SufficientBalance(bal[r], amount)
             THEN /\ loc' = [loc EXCEPT ![p] = call]
                  /\ pc' = [pc EXCEPT ![p] = "done"]
                  /\ res' = [res EXCEPT ![p] = Err(400, "Insufficient balance")]
             ELSE /\ loc' = [loc EXCEPT ![p] =
                                [call EXCEPT !.rdAvail = bal[r].availableBalance,
                                             !.rdRes = bal[r].reservedBalance]]
                  /\ pc' = [pc EXCEPT ![p] = "c_reserve"]
                  /\ res' = [res EXCEPT ![p] = NoRes]
    /\ UNCHANGED <<bal, orders, trades, nextId, exch, tx, released>>

\* validateUserBalance: the row as saved, from the values read before
ReservedRow(rdAvail, rdRes, amount) == BalRow(rdAvail - amount, rdRes + amount)

\* validateUserBalance: balance.save({ transaction }); Step 8: TradingOrder.create
ReserveAndCreatePending(p) ==
    /\ pc[p] = "c_reserve"
    /\ LET l == loc[p]
           r == <<l.userId, ReserveAsset(l.orderType)>>
           amount == ReserveAmount(l.orderType, l.price, l.quantity)
           newOrder == [exists |-> TRUE, userId |-> l.userId, orderType |-> l.orderType,
                        executionType |-> l.executionType, price |-> l.price, quantity |-> l.quantity,
                        status |-> "PENDING", externalOrderId |-> 0]
       IN /\ ~BalLocked(p, r)
          /\ tx' = [tx EXCEPT ![p].balW = (r :> ReservedRow(l.rdAvail, l.rdRes, amount)),
                              ![p].ordIns = (nextId :> newOrder)]
          /\ loc' = [loc EXCEPT ![p].orderId = nextId]
    /\ nextId' = nextId + 1
    /\ pc' = [pc EXCEPT ![p] = "c_place"]
    /\ UNCHANGED <<bal, orders, trades, exch, res, released>>

\* faulty variant: a submit that fails is sent again
PlaceOrderOnCEX_Retries(p) ==
    /\ pc[p] = "c_place"
    /\ loc[p].submits < 3
    /\ loc' = [loc EXCEPT ![p].cex = "REJECTED", ![p].submits = @ + 1]
    /\ UNCHANGED <<bal, orders, trades, nextId, exch, pc, tx, res, released>>

\* Step 9: placeOrderOnCEX.  The exchange rejects the order, accepts it and
\* leaves it open (NEW), accepts and fills it (FILLED), or accepts it while
\* the response is lost (the call throws although the order exists).
PlaceOrderOnCEX(p) ==
    /\ pc[p] = "c_place"
    /\ LET o == loc[p].orderId IN
       \E answer \in {"REJECTED", "LOST", "NEW", "FILLED"} :
          /\ loc' = [loc EXCEPT ![p].cex = answer, ![p].submits = @ + 1]
          /\ CASE answer = "REJECTED" ->
                    /\ EndRollback(p, Err(500, "Failed to place order on Binance"))
                    /\ UNCHANGED exch
               [] answer = "LOST" ->
                    /\ EndRollback(p, Err(500, "Failed to place order on Binance"))
                    /\ exch' = [exch EXCEPT ![o] = "NEW"]
               [] answer = "NEW" ->
                    /\ exch' = [exch EXCEPT ![o] = "NEW"]
                    /\ tx' = [tx EXCEPT ![p].ordIns[o].externalOrderId = o,
                                        ![p].ordIns[o].status = "PLACED"]
                    /\ pc' = [pc EXCEPT ![p] = "c_commit"]
                    /\ UNCHANGED <<bal, orders, trades, res>>
               [] answer = "FILLED" ->
                    /\ exch' = [exch EXCEPT ![o] = "FILLED"]
                    /\ tx' = [tx EXCEPT ![p].ordIns[o].externalOrderId = o,
                                        ![p].ordIns[o].status = "FILLED"]
                    /\ pc' = [pc EXCEPT ![p] = "c_settle"]
                    /\ UNCHANGED <<bal, orders, trades, res>>
    /\ UNCHANGED <<nextId, released>>

\* the columns of trade_history declared allowNull: false without a default
TradeHistoryRequired ==
    {"userId", "marketPairId", "orderId", "baseAsset", "quoteAsset",
     "price", "quantity", "total", "fee", "feeCurrency"}
\* Step 11: the attributes createOrder passes to TradeHistory.create
CreateOrderTradeFields ==
    {"userId", "orderId", "marketPairId", "baseAsset", "quoteAsset",
     "quantity", "price", "externalTradeId"}
\* Model.create validates the schema: a required column left out is rejected
TradeHistoryCreateOk(fields) == TradeHistoryRequired \subseteq fields

\* Step 10: baseAmount and quoteAmount of an immediate fill
FillBaseAmount(orderType, executedQty) ==
    IF orderType = "BUY" THEN executedQty ELSE -executedQty
FillQuoteAmount(orderType, executedQty, executedPrice) ==
    IF orderType = "BUY" THEN -TradeAmount(executedPrice, executedQty)
    ELSE TradeAmount(executedPrice, executedQty)

\* updateBalance: findOrCreate, then availableBalance + amount
UpdateBalance(row, amount) ==
    IF row.exists THEN BalRow(row.availableBalance + amount, row.reservedBalance)
    ELSE BalRow(amount, 0)

\* a row as the transaction t sees it: its own write, else the committed row
TxRow(t, r) == IF r \in DOMAIN t.balW THEN t.balW[r] ELSE bal[r]

\* Steps 11-12: TradeHistory.create, updateBalance(base), updateBalance(quote)
SettleImmediateFill(p) ==
    /\ pc[p] = "c_settle"
    /\ LET l == loc[p]
           b == <<l.userId, BaseAsset>>
           q == <<l.userId, QuoteAsset>>
           trade == [orderId |-> l.orderId, userId |-> l.userId, orderType |-> l.orderType,
                     price |-> l.price, quantity |-> l.quantity]
       IN IF TradeHistoryCreateOk(CreateOrderTradeFields)
          THEN /\ ~BalLocked(p, b) /\ ~BalLocked(p, q)
               /\ tx' = [tx EXCEPT
                           ![p].trW = Append(@, trade),
                           ![p].balW =
                               (b :> UpdateBalance(TxRow(tx[p], b),
                                                   FillBaseAmount(l.orderType, l.quantity)))
                               @@ (q :> UpdateBalance(TxRow(tx[p], q),
                                                   FillQuoteAmount(l.orderType, l.quantity, l.price)))
                               @@ @]
               /\ pc' = [pc EXCEPT ![p] = "c_commit"]
               /\ UNCHANGED <<bal, orders, trades, res>>
          ELSE EndRollback(p, Err(500, "Failed to place order: notNull Violation"))
    /\ UNCHANGED <<nextId, exch, loc, released>>

\* Step 13: newOrder.save and transaction.commit()
SaveAndCommit(p) ==
    /\ pc[p] = "c_commit"
    /\ EndCommit(p, tx[p], Ok("Order placed successfully"))
    /\ UNCHANGED <<nextId, exch, loc, released>>

\* ------------------------------------------------------------- cancelOrder
\* faulty variant: the order is looked up by id alone, whoever owns it
CancelPrecheck_IgnoresOwner(order, userId) ==
    IF ~order.exists
    THEN Err(404, "Order not found or access denied")
    ELSE IF order.status # "PLACED"
    THEN Err(400, "Only active orders can be canceled")
    ELSE NoRes

\* faulty variant: the status check lets CANCELLED orders through
CancelPrecheck_AllowsCancelled(order, userId) ==
    IF ~order.exists \/ order.userId # userId
    THEN Err(404, "Order not found or access denied")
    ELSE IF order.status \notin {"PLACED", "CANCELLED"}
    THEN Err(400, "Only active orders can be canceled")
    ELSE NoRes

\* #1: TradingOrder.findOne({ id, userId }) and the status check; the error
\* thrown, or NoRes when the order may be canceled
CancelPrecheck(order, userId) ==
    IF ~order.exists \/ order.userId # userId
    THEN Err(404, "Order not found or access denied")
    ELSE IF order.status # "PLACED"
    THEN Err(400, "Only active orders can be canceled")
    ELSE NoRes

\* cancelOrder is called: sequelize.transaction(), then #1
CancelOrderCall(p) ==
    /\ pc[p] = "idle"
    /\ \E userId \in Users, orderId \in OrderIds :
          LET order == orders[orderId] IN
          /\ loc' = [loc EXCEPT ![p] =
                        [NoLoc EXCEPT !.op = "cancelOrder", !.userId = userId,
                                      !.orderId = orderId,
                                      !.orderType = order.orderType,
                                      !.price = order.price,
                                      !.quantity = order.quantity]]
          /\ IF CancelPrecheck(order, userId) # NoRes
             THEN /\ pc' = [pc EXCEPT ![p] = "done"]
                  /\ res' = [res EXCEPT ![p] = CancelPrecheck(order, userId)]
             ELSE /\ pc' = [pc EXCEPT ![p] = "x_query"]
                  /\ res' = [res EXCEPT ![p] = NoRes]
    /\ UNCHANGED <<bal, orders, trades, nextId, exch, tx, released>>

\* what getOrderStatusFromCEX can answer for the order: its status on the
\* exchange, a failure of the call, or "does not exist" once a canceled
\* order has been dropped by the exchange
StatusAnswers(o) ==
    {exch[o], "ERROR"} \cup (IF exch[o] = "CANCELED" THEN {"NOT_FOUND"} ELSE {})

\* #2: getOrderStatusFromCEX; an order FILLED or CANCELED on the exchange is
\* marked so, saved and committed at once
CancelQueryStatus(p) ==
    /\ pc[p] = "x_query"
    /\ LET o == loc[p].orderId IN
       \E answer \in StatusAnswers(o) :
          /\ loc' = [loc EXCEPT ![p].cex = answer]
          /\ CASE answer = "FILLED" ->
                    /\ ~OrderLocked(p, o)
                    /\ EndCommit(p, [tx[p] EXCEPT !.statusW = (o :> "FILLED")],
                                 Ok("Order already filled"))
               [] answer = "CANCELED" ->
                    /\ ~OrderLocked(p, o)
                    /\ EndCommit(p, [tx[p] EXCEPT !.statusW = (o :> "CANCELLED")],
                                 Ok("Order already canceled"))
               [] answer = "NOT_FOUND" ->
                    /\ ~OrderLocked(p, o)
                    /\ EndCommit(p, [tx[p] EXCEPT !.statusW = (o :> "CANCELLED")],
                                 Ok("Order not found on Binance, marked canceled"))
               [] answer = "ERROR" ->
                    EndRollback(p, Err(500, "Failed to fetch order status from Binance"))
               [] OTHER ->
                    /\ pc' = [pc EXCEPT ![p] = "x_cancel"]
                    /\ UNCHANGED <<bal, orders, trades, tx, res>>
    /\ UNCHANGED <<nextId, exch, released>>

\* what cancelOrderOnCEX can answer: an open order is canceled (CANCELED), or
\* canceled while the response is lost, or the call fails, or the exchange
\* answers without confirming; an order no longer open is unknown (-2011)
CancelAnswers(o) ==
    IF exch[o] = "NEW" THEN {"CANCELED", "LOST", "ERROR", "UNCONFIRMED"}
    ELSE {"UNKNOWN_ORDER"}

\* #3: cancelOrderOnCEX, then order.status = "CANCELLED" and order.save
CancelOnCEX(p) ==
    /\ pc[p] = "x_cancel"
    /\ LET o == loc[p].orderId IN
       \E answer \in CancelAnswers(o) :
          /\ loc' = [loc EXCEPT ![p].cex = answer]
          /\ exch' = [exch EXCEPT ![o] = IF answer \in {"CANCELED", "LOST"}
                                         THEN "CANCELED" ELSE @]
          /\ CASE answer = "CANCELED" ->
                    /\ tx' = [tx EXCEPT ![p].statusW = (o :> "CANCELLED")]
                    /\ pc' = [pc EXCEPT ![p] = "x_release"]
                    /\ UNCHANGED <<bal, orders, trades, res>>
               [] answer = "UNKNOWN_ORDER" ->
                    EndRollback(p, Err(404, "Order not found or already executed"))
               [] answer = "UNCONFIRMED" ->
                    EndRollback(p, Err(502, "CEX did not confirm cancellation"))
               [] OTHER ->
                    EndRollback(p, Err(500, "Failed to cancel order on Binance"))
    /\ UNCHANGED <<nextId, released>>

\* #4: CryptoBalance.findOne for the released token; without a row the
\* transaction is committed as it is
CancelReadBalance(p) ==
    /\ pc[p] = "x_release"
    /\ LET l == loc[p]
           r == <<l.userId, ReleaseAsset(l.orderType)>>
       IN IF bal[r].exists
          THEN /\ loc' = [loc EXCEPT ![p].rdAvail = bal[r].availableBalance,
                                     ![p].rdRes = bal[r].reservedBalance]
               /\ pc' = [pc EXCEPT ![p] = "x_save"]
               /\ UNCHANGED <<bal, orders, trades, tx, res>>
          ELSE /\ EndCommit(p, tx[p], Ok("Order canceled successfully"))
               /\ UNCHANGED loc
    /\ UNCHANGED <<nextId, exch, released>>

\* #4: the balance row as cancelOrder saves it (only reservedBalance is set)
ReleasedRow(row, rdRes, amount) == [row EXCEPT !.reservedBalance = rdRes - amount]

\* #4: balance.save({ transaction }) and transaction.commit()
CancelReleaseCommit(p) ==
    /\ pc[p] = "x_save"
    /\ LET l == loc[p]
           r == <<l.userId, ReleaseAsset(l.orderType)>>
           amount == ReleaseAmount(l.orderType, l.price, l.quantity)
       IN /\ ~BalLocked(p, r)
          /\ EndCommit(p, [tx[p] EXCEPT !.balW = (r :> ReleasedRow(bal[r], l.rdRes, amount))],
                       Ok("Order canceled successfully"))
          /\ released' = [released EXCEPT ![l.orderId] = @ + 1]
    /\ UNCHANGED <<nextId, exch, loc>>

\* ------------------------------------------------------- syncOrderStatuses
\* the statuses the query of syncOrderStatuses leaves out (Op.notIn)
SyncExcluded == {"FILLED", "CANCELED", "REJECTED", "EXPIRED"}

\* TradingOrder.findAll({ where }): userId 0 stands for null, {} for no ids
SyncSelection(userId, orderIds) ==
    {o \in OrderIds :
        /\ orders[o].exists
        /\ orders[o].status \notin SyncExcluded
        /\ (userId # 0 => orders[o].userId = userId)
        /\ (orderIds # {} => o \in orderIds)}

SyncInputs == {0, 1} \X ({{}} \cup {{o} : o \in OrderIds})

\* syncOrderStatuses is called: the query, whose result the loop walks
SyncCall(p) ==
    /\ pc[p] = "idle"
    /\ \E in \in SyncInputs :
          LET todo == SyncSelection(in[1], in[2]) IN
          /\ loc' = [loc EXCEPT ![p] = [NoLoc EXCEPT !.op = "syncOrderStatuses", !.todo = todo]]
          /\ IF todo = {}
             THEN /\ pc' = [pc EXCEPT ![p] = "done"]
                  /\ res' = [res EXCEPT ![p] = Ok("synced")]
             ELSE /\ pc' = [pc EXCEPT ![p] = "s_loop"]
                  /\ res' = [res EXCEPT ![p] = NoRes]
    /\ UNCHANGED <<bal, orders, trades, nextId, exch, tx, released>>

\* the loop body's test and assignment: status is what getOrderStatusFromCEX
\* resolved to, the response object, which no stored status string equals
SyncedStatus(orderStatus, response) ==
    IF response # orderStatus THEN response ELSE orderStatus

\* one turn of the loop: getOrderStatusFromCEX(order.externalOrderId), the
\* comparison, order.save().  The call or the save may throw, which the
\* loop's own catch swallows; a save that goes through stores RawStatus.
SyncOrder(p) ==
    /\ pc[p] = "s_loop"
    /\ LET o == CHOOSE x \in loc[p].todo : \A y \in loc[p].todo : x <= y
           rest == loc[p].todo \ {o}
       IN /\ \E outcome \in {"THROWN", "SAVED"} :
                IF outcome = "SAVED"
                THEN /\ ~OrderLocked(p, o)
                     /\ orders' = [orders EXCEPT ![o].status = SyncedStatus(@, RawStatus)]
                ELSE UNCHANGED orders
          /\ loc' = [loc EXCEPT ![p].todo = rest]
          /\ IF rest = {} /\ loc[p].flow
             THEN /\ pc' = [pc EXCEPT ![p] = "f_cancel"]
                  /\ UNCHANGED res
             ELSE IF rest = {}
             THEN /\ pc' = [pc EXCEPT ![p] = "done"]
                  /\ res' = [res EXCEPT ![p] = Ok("synced")]
             ELSE UNCHANGED <<pc, res>>
    /\ UNCHANGED <<bal, trades, nextId, exch, tx, released>>

\* ------------------------------------------- the cancel request of the API
\* what tradingService.syncOrderStatuses is when the controller calls it: the
\* service module exports no such function, so the call is a TypeError unless
\* the build links the function of tradingServiceUtils
SyncLinkage == {"linked", "undefined"}

\* tradingController.cancelOrder is called:
\* await tradingService.syncOrderStatuses(userId, [orderId])
CancelRequest(p) ==
    /\ pc[p] = "idle"
    /\ \E userId \in Users, orderId \in OrderIds, linkage \in SyncLinkage :
          LET todo == SyncSelection(userId, {orderId})
              call == [NoLoc EXCEPT !.op = "syncOrderStatuses", !.flow = TRUE,
                                    !.userId = userId, !.orderId = orderId,
                                    !.todo = todo]
          IN IF linkage = "undefined"
             THEN /\ loc' = [loc EXCEPT ![p] = [call EXCEPT !.todo = {}]]
                  /\ pc' = [pc EXCEPT ![p] = "done"]
                  /\ res' = [res EXCEPT ![p] = Err(500, "Failed to cancel order")]
             ELSE /\ loc' = [loc EXCEPT ![p] = call]
                  /\ pc' = [pc EXCEPT ![p] = IF todo = {} THEN "f_cancel" ELSE "s_loop"]
                  /\ res' = [res EXCEPT ![p] = NoRes]
    /\ UNCHANGED <<bal, orders, trades, nextId, exch, tx, released>>

\* tradingController.cancelOrder after the sync:
\* await tradingService.cancelOrder(userId, orderId), up to its status check
CancelRequestCancel(p) ==
    /\ pc[p] = "f_cancel"
    /\ LET userId == loc[p].userId
           orderId == loc[p].orderId
           order == orders[orderId]
       IN /\ loc' = [loc EXCEPT ![p] =
                        [NoLoc EXCEPT !.op = "cancelOrder", !.flow = TRUE,
                                      !.userId = userId,
                                      !.orderId = orderId,
                                      !.orderType = order.orderType,
                                      !.price = order.price,
                                      !.quantity = order.quantity]]
          /\ IF CancelPrecheck(order, userId) # NoRes
             THEN /\ pc' = [pc EXCEPT ![p] = "done"]
                  /\ res' = [res EXCEPT ![p] = CancelPrecheck(order, userId)]
             ELSE /\ pc' = [pc EXCEPT ![p] = "x_query"]
                  /\ res' = [res EXCEPT ![p] = NoRes]
    /\ UNCHANGED <<bal, orders, trades, nextId, exch, tx, released>>

\* --------------------------------------------------------------- exchange
\* the exchange matches an open order
ExchangeFill(o) ==
    /\ exch[o] = "NEW"
    /\ exch' = [exch EXCEPT ![o] = "FILLED"]
    /\ UNCHANGED <<bal, orders, trades, nextId, pc, loc, tx, res, released>>

\* requests are handled concurrently; snap is not kept
Next ==
    \/ \E p \in Procs : CreateOrderCall(p) /\ UNCHANGED <<snap, adj, http, feed, kline>>
    \/ \E p \in Procs : ReserveAndCreatePending(p) /\ UNCHANGED <<snap, adj, http, feed, kline>>
    \/ \E p \in Procs : PlaceOrderOnCEX(p) /\ UNCHANGED <<snap, adj, http, feed, kline>>
    \/ \E p \in Procs : SettleImmediateFill(p) /\ UNCHANGED <<snap, adj, http, feed, kline>>
    \/ \E p \in Procs : SaveAndCommit(p) /\ UNCHANGED <<snap, adj, http, feed, kline>>
    \/ \E p \in Procs : CancelOrderCall(p) /\ UNCHANGED <<snap, adj, http, feed, kline>>
    \/ \E p \in Procs : CancelQueryStatus(p) /\ UNCHANGED <<snap, adj, http, feed, kline>>
    \/ \E p \in Procs : CancelOnCEX(p) /\ UNCHANGED <<snap, adj, http, feed, kline>>
    \/ \E p \in Procs : CancelReadBalance(p) /\ UNCHANGED <<snap, adj, http, feed, kline>>
    \/ \E p \in Procs : CancelReleaseCommit(p) /\ UNCHANGED <<snap, adj, http, feed, kline>>
    \/ \E p \in Procs : SyncCall(p) /\ UNCHANGED <<snap, adj, http, feed, kline>>
    \/ \E p \in Procs : SyncOrder(p) /\ UNCHANGED <<snap, adj, http, feed, kline>>
    \/ \E p \in Procs : Return(p) /\ UNCHANGED <<snap, adj, http, feed, kline>>
    \/ \E o \in OrderIds : ExchangeFill(o) /\ UNCHANGED <<snap, adj, http, feed, kline>>

Spec == Init /\ [][Next]_vars

\* requests are handled one at a time (the exchange still moves on its own):
\* p may step when no other handler is running, and snap keeps the committed
\* balances of the moment the running call began.  Besides the calls of the
\* service functions, a request may be the cancel request of the API.
Alone(p) == \A q \in Procs \ {p} : pc[q] = "idle"
KeepSnap(p) ==
    /\ snap' = (IF pc[p] = "idle" THEN bal ELSE snap)
    /\ UNCHANGED <<adj, http, feed, kline>>

NextSeq ==
    \/ \E p \in Procs : Alone(p) /\ CreateOrderCall(p) /\ KeepSnap(p)
    \/ \E p \in Procs : Alone(p) /\ ReserveAndCreatePending(p) /\ KeepSnap(p)
    \/ \E p \in Procs : Alone(p) /\ PlaceOrderOnCEX(p) /\ KeepSnap(p)
    \/ \E p \in Procs : Alone(p) /\ SettleImmediateFill(p) /\ KeepSnap(p)
    \/ \E p \in Procs : Alone(p) /\ SaveAndCommit(p) /\ KeepSnap(p)
    \/ \E p \in Procs : Alone(p) /\ CancelOrderCall(p) /\ KeepSnap(p)
    \/ \E p \in Procs : Alone(p) /\ CancelQueryStatus(p) /\ KeepSnap(p)
    \/ \E p \in Procs : Alone(p) /\ CancelOnCEX(p) /\ KeepSnap(p)
    \/ \E p \in Procs : Alone(p) /\ CancelReadBalance(p) /\ KeepSnap(p)
    \/ \E p \in Procs : Alone(p) /\ CancelReleaseCommit(p) /\ KeepSnap(p)
    \/ \E p \in Procs : Alone(p) /\ SyncCall(p) /\ KeepSnap(p)
    \/ \E p \in Procs : Alone(p) /\ SyncOrder(p) /\ KeepSnap(p)
    \/ \E p \in Procs : Alone(p) /\ Return(p) /\ KeepSnap(p)
    \/ \E p \in Procs : Alone(p) /\ CancelRequest(p) /\ KeepSnap(p)
    \/ \E p \in Procs : Alone(p) /\ CancelRequestCancel(p) /\ KeepSnap(p)
    \/ \E o \in OrderIds : ExchangeFill(o) /\ UNCHANGED <<snap, adj, http, feed, kline>>

SpecSeq == Init /\ [][NextSeq]_vars

\* ------------------------------------------------------ the sync under fairness
\* a handler that was called takes its next step
HandlerStep ==
    \E p \in Procs :
        /\ Alone(p)
        /\ KeepSnap(p)
        /\ \/ ReserveAndCreatePending(p) \/ PlaceOrderOnCEX(p)
           \/ SettleImmediateFill(p) \/ SaveAndCommit(p)
           \/ CancelQueryStatus(p) \/ CancelOnCEX(p)
           \/ CancelReadBalance(p) \/ CancelReleaseCommit(p)
           \/ SyncOrder(p) \/ CancelRequestCancel(p) \/ Return(p)

\* syncOrderStatuses() is called without a filter
SyncAll ==
    \E p \in Procs :
        /\ Alone(p)
        /\ KeepSnap(p)
        /\ SyncCall(p)
        /\ loc'[p].todo = SyncSelection(0, {})

\* the exchange brings an open order to a terminal status
ExchangeSettles == \E o \in OrderIds : ExchangeFill(o) /\ UNCHANGED <<snap, adj, http, feed, kline>>

\* one request at a time, where every call runs to its end, the unfiltered
\* sync is called again and again, and the exchange settles what it accepted
SpecLive ==
    /\ Init
    /\ [][NextSeq]_vars
    /\ WF_vars(HandlerStep)
    /\ SF_vars(SyncAll)
    /\ WF_vars(ExchangeSettles)

\* ------------------------------------------------- the adjust functions alone
\* the quantities and prices tried: up to two significant digits at every
\* decimal position
AdjustValues == {n * Pow10(j) : n \in 1..MaxMantissa, j \in 0..MaxDecimals}

InitAdjust ==
    /\ bal = InitBal
    /\ orders = [o \in OrderIds |-> NoOrder]
    /\ trades = <<>>
    /\ nextId = 1
    /\ exch = [o \in OrderIds |-> "NONE"]
    /\ pc = [p \in Procs |-> "idle"]
    /\ loc = [p \in Procs |-> NoLoc]
    /\ tx = [p \in Procs |-> EmptyTx]
    /\ res = [p \in Procs |-> NoRes]
    /\ snap = InitBal
    /\ released = [o \in OrderIds |-> 0]
    /\ adj \in [fn : {"quantity", "price"}, value : AdjustValues,
                step : StepSizes, result : {-1}]
    /\ http = NoHttp
    /\ feed = NoFeed
    /\ kline = NoKline

\* Step 5: adjustedQuantity = adjustQuantityToLotSize(quantity, stepSize)
AdjustQuantity ==
    /\ adj.fn = "quantity"
    /\ adj.result = -1
    /\ adj' = [adj EXCEPT !.result = AdjustQuantityToLotSize(adj.value, adj.step)]
    /\ UNCHANGED <<tradingVars, http, feed, kline>>

\* Step 5: adjustedPrice = adjustPriceToTickSize(executionPrice, tickSize)
AdjustPrice ==
    /\ adj.fn = "price"
    /\ adj.result = -1
    /\ adj' = [adj EXCEPT !.result = AdjustPriceToTickSize(adj.value, adj.step)]
    /\ UNCHANGED <<tradingVars, http, feed, kline>>

NextAdjust ==
    \/ AdjustQuantity
    \/ AdjustPrice

SpecAdjust == InitAdjust /\ [][NextAdjust]_vars

\* ------------------------------------------- the response sent for an error
\* error instanceof Error ? error.stack : undefined
HasStack(kind) == kind \in {"CustomError", "Error"}

\* errorHandler: the response of the error middleware
ErrorHandlerResponse(env, kind, status) ==
    [status |-> IF kind = "CustomError" THEN status ELSE 500,
     stack |-> env = "development" /\ HasStack(kind)]

\* the catch block of placeOrder, getUserOrders, cancelOrder, getTradeHistory
ControllerErrorResponse(kind, status) ==
    [status |-> IF kind = "CustomError" THEN status ELSE 500,
     stack |-> HasStack(kind)]

\* an error is raised: inside one of the trading handlers, or before them in
\* a middleware that passes it to next()
InitHttp ==
    /\ IdleService
    /\ adj = NoAdj
    /\ feed = NoFeed
    /\ kline = NoKline
    /\ http \in [env : Envs, origin : TradingHandlers \cup {"middleware"},
                 kind : ErrorKinds, status : ErrorStatuses,
                 response : {NoResponse}]

\* the handler's own catch block answers
ControllerCatch ==
    /\ http.origin \in TradingHandlers
    /\ http.response = NoResponse
    /\ http' = [http EXCEPT !.response = ControllerErrorResponse(http.kind, http.status)]
    /\ UNCHANGED <<tradingVars, adj, feed, kline>>

\* app.use(errorHandler) answers
ErrorHandler ==
    /\ http.origin = "middleware"
    /\ http.response = NoResponse
    /\ http' = [http EXCEPT !.response =
                    ErrorHandlerResponse(http.env, http.kind, http.status)]
    /\ UNCHANGED <<tradingVars, adj, feed, kline>>

NextHttp ==
    \/ ControllerCatch
    \/ ErrorHandler

SpecHttp == InitHttp /\ [][NextHttp]_vars

\* ------------------------------------------------- buffering price candles
\* bufferPriceCandle(marketPairId, data)
BufferPriceCandle ==
    /\ feed.handed < MaxCandles
    /\ feed' = [feed EXCEPT !.handed = @ + 1,
                            !.batchBuffer = @ \cup {feed.handed + 1}]
    /\ UNCHANGED <<tradingVars, adj, http, kline>>

\* the interval timer calls flushPriceCandles: bulkData is built from the
\* buffer; an empty bulkData skips the write and clears at once, else the
\* function waits for PriceCandle.bulkCreate
FlushPriceCandles ==
    /\ Len(feed.inflight) < MaxFlushes
    /\ LET bulkData == feed.batchBuffer IN
       IF bulkData = {}
       THEN feed' = [feed EXCEPT !.batchBuffer = {}]
       ELSE feed' = [feed EXCEPT !.inflight = Append(@, bulkData)]
    /\ UNCHANGED <<tradingVars, adj, http, kline>>

RemoveAt(seq, i) == [j \in 1..(Len(seq) - 1) |-> IF j < i THEN seq[j] ELSE seq[j + 1]]

\* bulkCreate of a running flush resolves: the rows are written, then
\* batchBuffer.clear()
BulkCreateResolves ==
    /\ \E i \in 1..Len(feed.inflight) :
          feed' = [feed EXCEPT !.written = @ \cup feed.inflight[i],
                              !.batchBuffer = {},
                              !.inflight = RemoveAt(@, i)]
    /\ UNCHANGED <<tradingVars, adj, http, kline>>

\* bulkCreate of a running flush rejects: the catch block logs, the buffer
\* is left as it is
BulkCreateRejects ==
    /\ \E i \in 1..Len(feed.inflight) :
          feed' = [feed EXCEPT !.inflight = RemoveAt(@, i)]
    /\ UNCHANGED <<tradingVars, adj, http, kline>>

NextFeed ==
    \/ BufferPriceCandle
    \/ FlushPriceCandles
    \/ BulkCreateResolves
    \/ BulkCreateRejects

\* the timer keeps firing and a bulkCreate that is tried again and again
\* succeeds
SpecFeed ==
    /\ Init
    /\ [][NextFeed]_vars
    /\ WF_vars(FlushPriceCandles)
    /\ SF_vars(BulkCreateResolves)

\* --------------------------------------------------- the kline WebSockets
Live == {"CONNECTING", "OPEN"}

\* initializeWebSocket: new WebSocket(wsUrl), state.connections.set(symbol, ws)
NewSocket(k) ==
    [k EXCEPT !.created = @ + 1,
              !.sockets[k.created + 1] = [NoSocket EXCEPT !.readyState = "CONNECTING"],
              !.connections = k.created + 1]

\* handleReconnection, called by the handler of an event of socket s
HandleReconnection(k, s) ==
    IF k.retryAttempts < MAX_RETRIES
    THEN [k EXCEPT !.retryAttempts = @ + 1,
                   !.timers = @ + 1,
                   !.sockets[s].reconnects = @ + 1]
    ELSE k

\* ws.terminate() and ws.close(): a socket still connecting aborts its
\* handshake and raises 'error' and 'close', an open one raises 'close', a
\* closed one nothing
Shut(k, s) ==
    IF k.sockets[s].readyState = "CONNECTING"
    THEN [k EXCEPT !.sockets[s].readyState = "CLOSED",
                   !.sockets[s].events = @ \cup {"error", "close"}]
    ELSE IF k.sockets[s].readyState = "OPEN"
    THEN [k EXCEPT !.sockets[s].readyState = "CLOSED",
                   !.sockets[s].events = @ \cup {"close"}]
    ELSE k

\* startPriceFeed: initializeWebSocket(symbol, callback)
InitializeWebSocket ==
    /\ kline.created = 0
    /\ kline.shutdownAt = -1
    /\ kline' = NewSocket(kline)
    /\ UNCHANGED <<tradingVars, adj, http, feed>>

\* ws.on('open'): the retry counter is reset
OnOpen(s) ==
    /\ kline.sockets[s].readyState = "CONNECTING"
    /\ kline' = [kline EXCEPT !.sockets[s].readyState = "OPEN", !.retryAttempts = 0]
    /\ UNCHANGED <<tradingVars, adj, http, feed>>

\* the connection of a live socket fails: it raises 'error', then 'close'
ConnectionFails(s) ==
    /\ kline.sockets[s].readyState \in Live
    /\ kline' = [kline EXCEPT !.sockets[s].readyState = "CLOSED",
                              !.sockets[s].events = @ \cup {"error", "close"}]
    /\ UNCHANGED <<tradingVars, adj, http, feed>>

\* the server closes an open socket: it raises 'close'
ServerCloses(s) ==
    /\ kline.sockets[s].readyState = "OPEN"
    /\ kline' = [kline EXCEPT !.sockets[s].readyState = "CLOSED",
                              !.sockets[s].events = @ \cup {"close"}]
    /\ UNCHANGED <<tradingVars, adj, http, feed>>

\* ws.on('error')
OnError(s) ==
    /\ "error" \in kline.sockets[s].events
    /\ kline' = HandleReconnection([kline EXCEPT !.sockets[s].events = @ \ {"error"}], s)
    /\ UNCHANGED <<tradingVars, adj, http, feed>>

\* ws.on('close'); 'close' is raised after 'error'
OnClose(s) ==
    /\ kline.sockets[s].events = {"close"}
    /\ kline' = HandleReconnection([kline EXCEPT !.sockets[s].events = {}], s)
    /\ UNCHANGED <<tradingVars, adj, http, feed>>

\* a timer of handleReconnection fires: reconnect terminates the socket of
\* the map, if any, and initializes a new one
Reconnect ==
    /\ kline.timers > 0
    /\ kline.created < MaxSockets
    /\ LET fired == [kline EXCEPT !.timers = @ - 1]
           ended == IF fired.connections # 0
                    THEN Shut(fired, fired.connections) ELSE fired
       IN kline' = NewSocket(ended)
    /\ UNCHANGED <<tradingVars, adj, http, feed>>

\* closeAllConnections: closeConnection of every entry, connections.clear()
CloseAllConnections ==
    /\ kline.created > 0
    /\ kline.shutdownAt = -1
    /\ LET closed == IF kline.connections # 0
                     THEN Shut(kline, kline.connections) ELSE kline
       IN kline' = [closed EXCEPT !.connections = 0, !.shutdownAt = kline.created]
    /\ UNCHANGED <<tradingVars, adj, http, feed>>

NextWs ==
    \/ InitializeWebSocket
    \/ \E s \in SocketIds : OnOpen(s)
    \/ \E s \in SocketIds : ConnectionFails(s)
    \/ \E s \in SocketIds : ServerCloses(s)
    \/ \E s \in SocketIds : OnError(s)
    \/ \E s \in SocketIds : OnClose(s)
    \/ Reconnect
    \/ CloseAllConnections

SpecWs == Init /\ [][NextWs]_vars

\* =================================================================== claims
Terminal == {"FILLED", "PARTIALLY_FILLED", "CANCELLED"}

\* the trade_history rows linked to order o
TradesOf(o) == {i \in DOMAIN trades : trades[i].orderId = o}

\* what the recorded trades of a user add to the row r, by asset
TradeEffect(t, r) ==
    IF t.userId # r[1] THEN 0
    ELSE IF r[2] = BaseAsset THEN FillBaseAmount(t.orderType, t.quantity)
    ELSE FillQuoteAmount(t.orderType, t.quantity, t.price)
NetSettled(r) ==
    SetSum(DOMAIN trades, [i \in DOMAIN trades |-> TradeEffect(trades[i], r)])

Total(row) == row.availableBalance + row.reservedBalance

\* the persisted orders of a row's user that reserved on that row
ReservingOrders(r) ==
    {o \in OrderIds :
        /\ orders[o].exists
        /\ orders[o].userId = r[1]
        /\ ReserveAsset(orders[o].orderType) = r[2]}
ReservedFor(r) ==
    SetSum(ReservingOrders(r),
           [o \in OrderIds |->
               ReserveAmount(orders[o].orderType, orders[o].price, orders[o].quantity)])

\* C1: on every balance row, availableBalance + reservedBalance differs from
\* its initial value only by the net amount of the recorded trade settlements
\* (no deposit or withdrawal is made here); a reserve or a release alone
\* leaves the sum where it was.
C1_SumChangesOnlyBySettlement ==
    \A r \in Rows :
        bal[r].exists => Total(bal[r]) = Total(InitBal[r]) + NetSettled(r)

\* C2: availableBalance and reservedBalance of every balance row are
\* non-negative in every reachable state.
C2_BalancesNonNegative ==
    \A r \in Rows : bal[r].availableBalance >= 0 /\ bal[r].reservedBalance >= 0

PlaceFailed(p) ==
    /\ pc[p] = "done"
    /\ loc[p].op = "createOrder"
    /\ loc[p].cex \in {"REJECTED", "LOST"}

\* C4: when createOrder surfaces the error of a placeOrderOnCEX that failed
\* after the reservation, every balance row has the availableBalance and
\* reservedBalance it had when the call began, and no order row of the call
\* persists.
C4_PlaceFailureRestoresLedger ==
    \A p \in Procs :
        PlaceFailed(p) =>
            /\ res[p].kind = "error"
            /\ bal = snap
            /\ ~orders[loc[p].orderId].exists

\* C4 witness: a call that had reserved funds surfaced a place failure
C4_Witness ==
    \E p \in Procs :
        /\ PlaceFailed(p)
        /\ loc[p].orderId \in OrderIds
        /\ ReserveAmount(loc[p].orderType, loc[p].price, loc[p].quantity) > 0
        /\ res[p].code = 500

\* C5: an order ends in the one terminal state the exchange decided, and the
\* ledger reflects that outcome alone: a FILLED order was filled on the
\* exchange, its trade was settled once and its reservation not released; a
\* CANCELLED order was canceled on the exchange, its reservation was released
\* once and no trade was settled.
C5_OneOutcomeInLedger ==
    \A o \in OrderIds :
        /\ orders[o].status = "FILLED" =>
              exch[o] = "FILLED" /\ Cardinality(TradesOf(o)) = 1 /\ released[o] = 0
        /\ orders[o].status = "CANCELLED" =>
              exch[o] = "CANCELED" /\ TradesOf(o) = {} /\ released[o] = 1

\* C6: the reservations on a balance row come out as in a serial execution:
\* the amounts reserved by the persisted orders never exceed what was
\* available, and availableBalance is what is left after them.
C6_ReservationsSerializable ==
    \A r \in Rows :
        bal[r].exists =>
            /\ ReservedFor(r) <= InitBal[r].availableBalance
            /\ bal[r].availableBalance = InitBal[r].availableBalance - ReservedFor(r)

\* a cancelOrder call of p ended with the exchange confirming the cancel
CancelConfirmed(p) ==
    /\ pc[p] = "done"
    /\ loc[p].op = "cancelOrder"
    /\ res[p] = Ok("Order canceled successfully")

\* C7: after a cancelOrder the exchange confirmed, the order is CANCELLED and
\* the amount reserved for it at creation (notional plus fee for BUY, base
\* quantity for SELL) has moved from reservedBalance back to availableBalance.
C7_CancelReleasesReservation ==
    \A p \in Procs :
        CancelConfirmed(p) =>
            LET l == loc[p]
                r == <<l.userId, ReserveAsset(l.orderType)>>
                amount == ReserveAmount(l.orderType, l.price, l.quantity)
            IN /\ orders[l.orderId].status = "CANCELLED"
               /\ bal[r].reservedBalance = snap[r].reservedBalance - amount
               /\ bal[r].availableBalance = snap[r].availableBalance + amount

\* a createOrder call of p ended after the exchange reported FILLED at once
ImmediateFillDone(p) ==
    /\ pc[p] = "done"
    /\ loc[p].op = "createOrder"
    /\ loc[p].cex = "FILLED"

\* C8: when the submit is reported FILLED at once, createOrder returns with
\* the reservation consumed: reservedBalance of the reserved asset is what it
\* was before the order, and the available balances show the trade (the base
\* asset moved by the quantity, the quote asset by the notional, with or
\* without the fee).
C8_ImmediateFillConsumesReservation ==
    \A p \in Procs :
        ImmediateFillDone(p) =>
            LET l == loc[p]
                b == <<l.userId, BaseAsset>>
                q == <<l.userId, QuoteAsset>>
                r == <<l.userId, ReserveAsset(l.orderType)>>
                quoteMoves == {TradeAmount(l.price, l.quantity),
                               TradeAmount(l.price, l.quantity) + FeeAmount(l.price, l.quantity),
                               TradeAmount(l.price, l.quantity) - FeeAmount(l.price, l.quantity)}
            IN /\ res[p].kind = "ok"
               /\ bal[r].reservedBalance = snap[r].reservedBalance
               /\ bal[b].availableBalance =
                      snap[b].availableBalance + FillBaseAmount(l.orderType, l.quantity)
               /\ \E m \in quoteMoves :
                      bal[q].availableBalance =
                          snap[q].availableBalance
                          + (IF l.orderType = "BUY" THEN -m ELSE m)

\* C9: every order whose status is FILLED has exactly one trade_history row
\* linked to it.
C9_FilledHasOneTrade ==
    \A o \in OrderIds :
        orders[o].status = "FILLED" => Cardinality(TradesOf(o)) = 1

\* p calls cancelOrder in this step on an order already CANCELLED or FILLED
CancelsTerminal(p) ==
    /\ pc[p] = "idle"
    /\ pc'[p] # "idle"
    /\ loc'[p].op = "cancelOrder"
    /\ orders[loc'[p].orderId].status \in {"CANCELLED", "FILLED"}

SyncTarget(p) == CHOOSE x \in loc[p].todo : \A y \in loc[p].todo : x <= y

\* the row an order reserved on, and the amount reserved for it
OrderRow(o) == <<orders[o].userId, ReserveAsset(orders[o].orderType)>>
OrderReserve(o) == ReserveAmount(orders[o].orderType, orders[o].price, orders[o].quantity)

CreatesUnfundedBuy(p) ==
    /\ pc[p] = "idle"
    /\ pc'[p] # "idle"
    /\ loc'[p].op = "createOrder"
    /\ loc'[p].orderType = "BUY"
    /\ InputError(loc'[p].userId, loc'[p].executionType, loc'[p].price, loc'[p].quantity) = NoRes
    /\ loc'[p].price > 0
    /\ TotalAmount(loc'[p].price, loc'[p].quantity)
           > bal[<<loc'[p].userId, QuoteAsset>>].availableBalance

\* C13: a createOrder BUY whose total (notional plus fee) exceeds the quote
\* asset's availableBalance ends with the insufficient-balance error (400),
\* changes no balance row, persists no order, writes nothing in its
\* transaction and submits nothing to the exchange.
C13_UnfundedBuyRejected ==
    [][\A p \in Procs :
          CreatesUnfundedBuy(p) =>
              /\ pc'[p] = "done"
              /\ res'[p] = Err(400, "Insufficient balance")
              /\ bal' = bal
              /\ orders' = orders
              /\ nextId' = nextId
              /\ tx'[p] = EmptyTx
              /\ exch' = exch]_vars

\* C13 witness: a BUY of the funded user was rejected because the quote row
\* holds less than the total
C13_Witness ==
    \E p \in Procs :
        /\ pc[p] = "done"
        /\ loc[p].op = "createOrder"
        /\ loc[p].orderType = "BUY"
        /\ bal[<<loc[p].userId, QuoteAsset>>].exists
        /\ bal[<<loc[p].userId, QuoteAsset>>].availableBalance
               < TotalAmount(loc[p].price, loc[p].quantity)
        /\ res[p] = Err(400, "Insufficient balance")

\* C14: while the exchange submit of createOrder is in flight, the call holds
\* no open transaction (no uncommitted write, no row lock), and the
\* reservation and the order are already committed, where a concurrent order
\* on the same balance row reads them.
C14_ReservationCommittedBeforeSubmit ==
    \A p \in Procs :
        pc[p] = "c_place" =>
            LET l == loc[p]
                r == <<l.userId, ReserveAsset(l.orderType)>>
                amount == ReserveAmount(l.orderType, l.price, l.quantity)
            IN /\ tx[p] = EmptyTx
               /\ orders[l.orderId].exists
               /\ bal[r].reservedBalance = snap[r].reservedBalance + amount
               /\ bal[r].availableBalance = snap[r].availableBalance - amount

\* C15: when the exchange submit of createOrder fails without an answer (the
\* request timed out or its response was lost) after the reservation, the
\* order stays persisted as PENDING or PLACED.
C15_TimedOutOrderStaysPersisted ==
    \A p \in Procs :
        (pc[p] = "done" /\ loc[p].op = "createOrder" /\ loc[p].cex = "LOST") =>
            /\ orders[loc[p].orderId].exists
            /\ orders[loc[p].orderId].status \in {"PENDING", "PLACED"}

\* the persisted orders still open (PENDING or PLACED) that reserved on row r
OpenOrdersOn(r) ==
    {o \in OrderIds :
        /\ orders[o].exists
        /\ orders[o].status \in {"PENDING", "PLACED"}
        /\ OrderRow(o) = r}

\* C16: in every committed state, reservedBalance of each balance row is the
\* sum of the amounts reserved for the user's open (PENDING or PLACED) orders
\* on that asset.
C16_ReservedIsSumOfOpenOrders ==
    \A r \in Rows :
        bal[r].exists =>
            bal[r].reservedBalance =
                SetSum(OpenOrdersOn(r), [o \in OrderIds |-> OrderReserve(o)])

\* a cancelOrder call of p ended at its re-query: the exchange reported the
\* order CANCELED, or not to exist
RequeryCanceled(p) ==
    /\ pc[p] = "done"
    /\ loc[p].op = "cancelOrder"
    /\ res[p] \in {Ok("Order already canceled"),
                   Ok("Order not found on Binance, marked canceled")}

\* C17: when the re-query of cancelOrder finds the order CANCELED (or not
\* existing) on the exchange, the order is CANCELLED and the amount reserved
\* for it is taken out of reservedBalance.
C17_RequeryCanceledReleases ==
    \A p \in Procs :
        RequeryCanceled(p) =>
            LET l == loc[p]
                r == <<l.userId, ReserveAsset(l.orderType)>>
                amount == ReserveAmount(l.orderType, l.price, l.quantity)
            IN /\ orders[l.orderId].status = "CANCELLED"
               /\ bal[r].reservedBalance = snap[r].reservedBalance - amount

\* C18: when the re-query of cancelOrder finds the order FILLED on the
\* exchange, the call ends there: the order is FILLED, the result says
\* "Order already filled", no balance row changes (nothing is released), and
\* the exchange is not asked to cancel.
C18_RequeryFilledNoRelease ==
    [][\A p \in Procs :
          (pc[p] = "x_query" /\ loc'[p].cex = "FILLED") =>
              /\ pc'[p] = "done"
              /\ res'[p] = Ok("Order already filled")
              /\ orders'[loc[p].orderId].status = "FILLED"
              /\ bal' = bal
              /\ released' = released
              /\ exch' = exch]_vars

\* C18 witness: a cancelOrder ended at its re-query with the order FILLED
C18_Witness ==
    \E p \in Procs :
        /\ pc[p] = "done"
        /\ loc[p].op = "cancelOrder"
        /\ loc[p].cex = "FILLED"
        /\ res[p] = Ok("Order already filled")
        /\ orders[loc[p].orderId].status = "FILLED"
        /\ exch[loc[p].orderId] = "FILLED"
        /\ bal[<<loc[p].userId, ReserveAsset(loc[p].orderType)>>].reservedBalance > 0

\* C19: when the exchange answers the cancel request of cancelOrder with
\* unknown order (-2011) or order does not exist (-2013), cancelOrder
\* succeeds and the order is in a terminal state.
C19_UnknownOrderIsSuccess ==
    \A p \in Procs :
        (pc[p] = "done" /\ loc[p].op = "cancelOrder" /\ loc[p].cex = "UNKNOWN_ORDER") =>
            /\ res[p].kind = "ok"
            /\ orders[loc[p].orderId].status \in Terminal

\* p is about to act, in cancelOrder or in the loop of syncOrderStatuses, on
\* an order whose persisted status is already terminal
ActsOnTerminal(p) ==
    \/ pc[p] = "s_loop" /\ orders[SyncTarget(p)].status \in Terminal
    \/ /\ pc[p] \in {"x_query", "x_cancel", "x_release", "x_save"}
       /\ orders[loc[p].orderId].status \in Terminal

\* C20: concurrent cancelOrder and syncOrderStatuses calls on one order are
\* safe: the reservation of an order is released at most once, and a call
\* that comes to act on an order another call has made terminal changes
\* neither the orders nor the balances and, when it ends, ends in success
\* (unless its exchange call itself failed).
C20_ConcurrentCancelSyncSafe ==
    [][/\ \A o \in OrderIds : released'[o] <= 1
       /\ \A p \in Procs :
             ActsOnTerminal(p) =>
                 /\ orders' = orders
                 /\ bal' = bal
                 /\ (pc'[p] = "done" /\ loc'[p].cex # "ERROR") => res'[p].kind = "ok"]_vars

\* C30: the result of adjustQuantityToLotSize(q, s), and of
\* adjustPriceToTickSize(p, t), is the largest multiple of the step that
\* does not exceed the value: a multiple of the step, not above the value,
\* and less than one step below it.
C30_AdjustFloorsToStep ==
    adj.result # -1 =>
        /\ adj.result % StepValue(adj.step) = 0
        /\ adj.result <= adj.value
        /\ adj.value - adj.result < StepValue(adj.step)

\* C21: once createOrder has reserved, the row of the reserved asset holds,
\* moved from availableBalance to reservedBalance, price * quantity *
\* (1 + fee rate) of the quote asset for a BUY and exactly the quantity of
\* the base asset for a SELL.  (Quote amounts are thousandths: the amount a
\* BUY moves, times TradingFeeDen, is the notional times TradingFeeDen +
\* TradingFeeNum.)  The amount is linear in the quantity: for price 50000 a
\* tenth of the amount of quantity 1 is 5005.
C21_ReservesNotionalPlusFee ==
    /\ TotalAmount(50000, 1) = 10 * 5005 * TradingFeeDen
    /\ \A p \in Procs :
          pc[p] = "c_place" =>
              LET l == loc[p]
                  r == <<l.userId, IF l.orderType = "BUY" THEN QuoteAsset ELSE BaseAsset>>
                  moved == tx[p].balW[r].reservedBalance - snap[r].reservedBalance
              IN /\ snap[r].availableBalance - tx[p].balW[r].availableBalance = moved
                 /\ IF l.orderType = "BUY"
                    THEN moved * TradingFeeDen =
                             l.price * l.quantity * TradingFeeDen
                                 * (TradingFeeDen + TradingFeeNum)
                    ELSE moved = l.quantity

\* C21 witness: a BUY has reserved its notional plus the fee
C21_Witness ==
    \E p \in Procs :
        /\ pc[p] = "c_place"
        /\ loc[p].orderType = "BUY"
        /\ loc[p].price * loc[p].quantity > 0
        /\ tx[p].balW[<<loc[p].userId, QuoteAsset>>].reservedBalance
               > TradeAmount(loc[p].price, loc[p].quantity)

\* C22: after createOrder has settled a fill, the quote-asset row of the
\* user holds, in total, the notional minus the fee more than before the
\* order for a SELL, and the notional plus the fee less for a BUY.
C22_SettlementNetsFee ==
    \A p \in Procs :
        ImmediateFillDone(p) =>
            LET l == loc[p]
                q == <<l.userId, QuoteAsset>>
                notional == l.price * l.quantity * TradingFeeDen
                fee == (notional * TradingFeeNum) \div TradingFeeDen
            IN IF l.orderType = "SELL"
               THEN Total(bal[q]) = Total(snap[q]) + (notional - fee)
               ELSE Total(bal[q]) = Total(snap[q]) - (notional + fee)

\* the two legs of the fill createOrder of p settles
BaseLeg(p) == <<loc[p].userId, BaseAsset>>
QuoteLeg(p) == <<loc[p].userId, QuoteAsset>>

C24_NegativeReleaseFails ==
    [][\A p \in Procs :
          (/\ pc[p] = "x_save"
           /\ pc'[p] = "done"
           /\ loc[p].rdRes < ReleaseAmount(loc[p].orderType, loc[p].price, loc[p].quantity)) =>
              /\ res'[p].kind = "error"
              /\ bal' = bal
              /\ orders' = orders]_vars

\* p calls cancelOrder in this step on an order of its own whose status is
\* not PLACED
CancelsInactive(p) ==
    /\ pc[p] = "idle"
    /\ pc'[p] # "idle"
    /\ loc'[p].op = "cancelOrder"
    /\ orders[loc'[p].orderId].exists
    /\ orders[loc'[p].orderId].userId = loc'[p].userId
    /\ orders[loc'[p].orderId].status # "PLACED"

\* C25: cancelOrder on an order whose status is not PLACED fails with the
\* error 400 "Only active orders can be canceled" without an exchange call,
\* and leaves the orders, the balance rows and its transaction untouched.
C25_InactiveCancelRejected ==
    [][\A p \in Procs :
          CancelsInactive(p) =>
              /\ pc'[p] = "done"
              /\ res'[p] = Err(400, "Only active orders can be canceled")
              /\ orders' = orders
              /\ bal' = bal
              /\ exch' = exch
              /\ tx'[p] = EmptyTx]_vars

\* C25 witness: the cancel of an order that is not PLACED was rejected
C25_Witness ==
    \E p \in Procs :
        /\ pc[p] = "done"
        /\ loc[p].op = "cancelOrder"
        /\ orders[loc[p].orderId].exists
        /\ orders[loc[p].orderId].userId = loc[p].userId
        /\ orders[loc[p].orderId].status # "PLACED"
        /\ res[p].code = 400
        /\ res[p].msg = "Only active orders can be canceled"
        /\ tx[p] = EmptyTx

\* the answers of the exchange with which a call of cancelOrder fails
CancelFailures == {"ERROR", "UNCONFIRMED", "LOST", "UNKNOWN_ORDER"}

StatusStep(from, to) ==
    \/ to = from
    \/ from = "NONE" /\ to \in {"PENDING", "PLACED"}
    \/ from = "PENDING" /\ to = "PLACED"
    \/ from = "PLACED" /\ to \in Terminal

CancelsForeign(p) ==
    /\ pc[p] = "idle"
    /\ pc'[p] # "idle"
    /\ loc'[p].op = "cancelOrder"
    /\ orders[loc'[p].orderId].exists
    /\ orders[loc'[p].orderId].userId # loc'[p].userId

\* C28: cancelOrder by a user who does not own the order fails with 404
\* "Order not found or access denied" and changes nothing; and no step of a
\* cancelOrder call changes an order or a balance row of another user.
C28_ForeignCancelRejected ==
    [][\A p \in Procs :
          /\ CancelsForeign(p) =>
                /\ pc'[p] = "done"
                /\ res'[p] = Err(404, "Order not found or access denied")
                /\ orders' = orders
                /\ bal' = bal
                /\ exch' = exch
                /\ tx'[p] = EmptyTx
          /\ (loc[p].op = "cancelOrder" /\ pc'[p] # pc[p]) =>
                /\ \A o \in OrderIds :
                      orders[o].userId # loc[p].userId => orders'[o] = orders[o]
                /\ \A r \in Rows :
                      r[1] # loc[p].userId => bal'[r] = bal[r]]_vars

\* C28 witness: a cancelOrder on an order of another user was rejected
C28_Witness ==
    \E p \in Procs :
        /\ pc[p] = "done"
        /\ loc[p].op = "cancelOrder"
        /\ orders[loc[p].orderId].exists
        /\ orders[loc[p].orderId].userId # loc[p].userId
        /\ orders[loc[p].orderId].status = "PLACED"
        /\ res[p] = Err(404, "Order not found or access denied")

\* C29: a persisted order has a positive price exactly when its execution
\* type is LIMIT; a MARKET order is stored without a price (0 stands for
\* null).
C29_PriceIffLimit ==
    \A o \in OrderIds :
        orders[o].exists =>
            (orders[o].price > 0 <=> orders[o].executionType = "LIMIT")

\* the messages of the errors that reject an order as invalid
InvalidOrderMessages ==
    {"Price required for LIMIT orders", "Invalid quantity", "Invalid price for order"}

\* C31: a createOrder whose quantity is zero once floored to the step size,
\* or whose LIMIT price is missing or not positive (also once floored to the
\* tick size), ends at once in a 400 invalid-order error: no balance row, no
\* order row and no exchange order changes, nothing is left in a transaction
\* and no order id is used.
C31_InvalidOrderRejected ==
    [][\A p \in Procs :
          (/\ pc[p] = "idle"
           /\ loc'[p].op = "createOrder"
           /\ \/ loc'[p].quantity <= 0
              \/ loc'[p].executionType = "LIMIT" /\ loc'[p].price <= 0) =>
             /\ pc'[p] = "done"
             /\ res'[p].kind = "error"
             /\ res'[p].code = 400
             /\ res'[p].msg \in InvalidOrderMessages
             /\ bal' = bal
             /\ orders' = orders
             /\ exch' = exch
             /\ nextId' = nextId
             /\ tx'[p] = EmptyTx]_vars

\* C31 witness: a LIMIT order whose price floored to zero under the tick size
\* was rejected by the validity check that follows the adjustment
C31_Witness ==
    \E p \in Procs :
        /\ pc[p] = "done"
        /\ loc[p].op = "createOrder"
        /\ loc[p].executionType = "LIMIT"
        /\ loc[p].price = 0
        /\ loc[p].quantity > 0
        /\ res[p] = Err(400, "Invalid price for order")
        /\ bal = InitBal
        /\ nextId = 1

\* C32: a createOrder call sends at most one submit request to the exchange,
\* whatever path it takes: a call that got an answer, or whose submit failed,
\* has sent exactly one, and no other call has sent any.
C32_AtMostOneSubmit ==
    \A p \in Procs :
        /\ loc[p].submits <= 1
        /\ (loc[p].op = "createOrder" /\ loc[p].cex # "NONE") => loc[p].submits = 1
        /\ pc[p] \in {"c_reserve", "c_place"} => loc[p].submits = 0

\* C32 witness: a call whose submit failed has ended with one request sent
C32_Witness ==
    \E p \in Procs :
        /\ PlaceFailed(p)
        /\ loc[p].submits = 1
        /\ res[p] = Err(500, "Failed to place order on Binance")

\* C35: once a createOrder returns whose placeOrderOnCEX got the exchange's
\* acceptance, a committed order row of the call carries the exchange order
\* id.
C35_AcceptedOrderIsPersisted ==
    \A p \in Procs :
        (/\ pc[p] = "done"
         /\ loc[p].op = "createOrder"
         /\ loc[p].cex \in {"NEW", "FILLED"}) =>
            /\ orders[loc[p].orderId].exists
            /\ orders[loc[p].orderId].externalOrderId = loc[p].orderId

\* the values of the status column
LocalStatuses == {"PENDING", "PLACED", "PARTIALLY_FILLED", "FILLED", "CANCELLED"}

C37_CancelRequestOnOpenOrder ==
    [][\A p \in Procs :
          LET o == IF pc[p] = "idle" THEN loc'[p].orderId ELSE loc[p].orderId
              open == /\ orders[o].exists
                      /\ orders[o].status = "PLACED"
                      /\ exch[o] = "NEW"
          IN
          /\ (pc[p] = "idle" /\ loc'[p].flow /\ open
                  /\ orders[o].userId = loc'[p].userId) =>
                pc'[p] = "s_loop"
          /\ (pc[p] = "s_loop" /\ loc[p].flow /\ loc'[p] # loc[p] /\ open) =>
                orders'[o].status = "PLACED"
          /\ (pc[p] = "f_cancel" /\ pc'[p] # "f_cancel" /\ open
                  /\ orders[o].userId = loc[p].userId) =>
                pc'[p] = "x_query"
          /\ (loc[p].flow /\ pc[p] \in {"x_release", "x_save"} /\ pc'[p] = "done") =>
                orders'[o].status = "CANCELLED"]_vars

\* C34: every order whose committed status is PENDING or PLACED eventually
\* has a terminal status, with its reservation released or consumed by a
\* recorded trade.
C34_OpenOrdersEventuallySettle ==
    \A o \in OrderIds :
        (orders[o].exists /\ orders[o].status \in {"PENDING", "PLACED"})
            ~> (/\ orders[o].status \in Terminal
                /\ (released[o] > 0 \/ TradesOf(o) # {}))

\* C33: an error response carries stack detail only when NODE_ENV is
\* development, whichever of the trading handlers or the error middleware
\* sent it.
C33_StackOnlyInDevelopment ==
    (http.response # NoResponse /\ http.env # "development") => ~http.response.stack

\* C38: every candle handed to bufferPriceCandle is eventually written, also
\* one that was buffered while a bulkCreate was running.
C38_BufferedCandleIsWritten ==
    \A c \in Candles : (c \in feed.batchBuffer) ~> (c \in feed.written)

\* C39: once closeAllConnections has run, the connection map stays empty and
\* no socket is created any more.
C39_NoSocketAfterShutdown ==
    kline.shutdownAt # -1 =>
        /\ kline.connections = 0
        /\ kline.created = kline.shutdownAt

\* at most one socket of the symbol is live, and it is the one of the map
OneLiveSocket ==
    /\ Cardinality({s \in SocketIds : kline.sockets[s].readyState \in Live}) <= 1
    /\ \A s \in SocketIds :
          (kline.sockets[s].readyState \in Live) => kline.connections = s

\* C40: while the feed is not shut down, at most one socket of the symbol is
\* live and it is the one of the map, every other socket made is closed; the
\* events of one socket schedule at most one reconnection; the retry counter
\* never passes MAX_RETRIES.
C40_OneLiveSocketOneReplacement ==
    kline.shutdownAt = -1 =>
        /\ OneLiveSocket
        /\ \A s \in SocketIds : kline.sockets[s].reconnects <= 1
        /\ kline.retryAttempts <= MAX_RETRIES

=============================================================================
